---- MODULE Spec2Model ----
(***************************************************************************)
(* Model of lighthouse-core/audits/screenshot-thumbnails.js: the filmstrip *)
(* audit (ScreenshotThumbnails._audit / audit) and the nearest-neighbour   *)
(* scaler (ScreenshotThumbnails.scaleImageToThumbnail).                    *)
(*                                                                         *)
(* Numbers.  Timestamps, complete and minimumTimelineDuration are integer  *)
(* milliseconds.  targetTimestamp = beginning + timelineEnd * i / 10 is a  *)
(* multiple of 1/10 ms, so it is carried in tenths of a millisecond        *)
(* (names ending in 10); every comparison and rounding below is exact.     *)
(***************************************************************************)
EXTENDS Integers, Sequences, FiniteSets, TLC

NUMBER_OF_THUMBNAILS == 10
THUMBNAIL_WIDTH == 120
DefaultMinimumTimelineDuration == 3000
JpegQuality == 90

\* Math.max() of no arguments is -Infinity; Number.isFinite rejects both.
NegInfinity == -1000000
PosInfinity == 1000000

\* ---------------------------------------------------------------- bounds
MaxFrames == 2
MaxImageHeight == 6

\* ---------------------------------------------------------------- inputs
\* frame.getTimeStamp() - speedline.beginning of the modelled frames
TimeOffsets == {0, 2, 400, 5000}
Beginning == 100
\* speedline.complete: absent, or a number (PosInfinity: a non-finite one)
Completes == {[given |-> FALSE, value |-> 0]} \cup
             {[given |-> TRUE, value |-> v] : v \in {0, 5, 5000, PosInfinity}}
\* context.options.minimumTimelineDuration; 0 also stands for "not set"
MinimumOptions == {0, 5, 6000}
GatherModes == {"navigation", "timespan", "snapshot"}
\* frame.getParsedImage() results: width, height and a seed for the bytes
Images == {[width |-> 240, height |-> 2, seed |-> 1],
           [width |-> 60, height |-> 1, seed |-> 2]}

NoFramesCodes == {"NO_SCREENSHOTS", "SPEEDINDEX_OF_ZERO",
                  "NO_SPEEDLINE_FRAMES", "INVALID_SPEEDLINE"}
\* codes Speedline.request may reject with (one of them not a no-frames one)
UpstreamCodes == NoFramesCodes \cup {"NO_NAVSTART"}

\* ------------------------------------------------------------ arithmetic
Max(a, b) == IF a >= b THEN a ELSE b

\* Math.max(...xs): -Infinity when xs is empty
RECURSIVE MathMax(_)
MathMax(xs) ==
  IF xs = <<>> THEN NegInfinity ELSE Max(Head(xs), MathMax(Tail(xs)))

IsFinite(x) == x # NegInfinity /\ x # PosInfinity

\* mutant: the fraction is dropped instead of rounded
Round10_Truncate(n) == n \div 10

\* Math.round(n / 10): the nearest integer, a half rounds towards +Infinity
Round10(n) == (n + 5) \div 10

\* ---------------------------------------------------------------- images
\* byte p of the RGBA data of the image decoded from seed
PixelByte(seed, p) == (p * 7 + (p \div 4) * 13 + seed * 101) % 256

\* frame.getParsedImage(): {width, height, data}.  The width * height * 4
\* bytes of data are kept by the seed that generates them: data[p] is
\* PixelByte(data, p).
getParsedImage(img) ==
  [width |-> img.width, height |-> img.height, data |-> img.seed]

\* imageData.data[p]; an index out of range reads undefined, stored as 0
ByteAt(imageData, p) ==
  IF p >= 0 /\ p < imageData.width * imageData.height * 4
    THEN PixelByte(imageData.data, p) ELSE 0

\* mutant: the source coordinate is rounded to the nearest instead of floored
OrigCoord_Nearest(imageData, k) ==
  (k * imageData.width + THUMBNAIL_WIDTH \div 2) \div THUMBNAIL_WIDTH

\* origX (origY) of output column i (row j): Math.floor(i * scaleFactor)
\* with scaleFactor = imageData.width / THUMBNAIL_WIDTH
OrigCoord(imageData, k) == (k * imageData.width) \div THUMBNAIL_WIDTH

\* Math.floor(imageData.height / scaleFactor)
ScaledHeight(imageData) ==
  (imageData.height * THUMBNAIL_WIDTH) \div imageData.width

\* the byte the two nested loops leave at outPixels[outPos]
OutPixel(imageData, outPos) ==
  LET c == outPos % 4
      i == (outPos \div 4) % THUMBNAIL_WIDTH
      j == (outPos \div 4) \div THUMBNAIL_WIDTH
      origX == OrigCoord(imageData, i)
      origY == OrigCoord(imageData, j)
      origPos == (origY * imageData.width + origX) * 4
  IN ByteAt(imageData, origPos + c)

scaleImageToThumbnail(imageData) ==
  LET scaledWidth == THUMBNAIL_WIDTH
      scaledHeight == ScaledHeight(imageData)
  IN [width |-> scaledWidth,
      height |-> scaledHeight,
      data |-> [outPos \in 0..(scaledWidth * scaledHeight * 4 - 1) |->
                  OutPixel(imageData, outPos)]]

\* jpeg.encode(raster, quality).data.toString('base64'): a non-empty text
\* determined by the raster and the quality; here its dimensions, the
\* quality and the first and last pixel bytes.
JpegEncodeBase64(raster, quality) ==
  LET n == raster.width * raster.height * 4
  IN <<raster.width, raster.height, quality>> \o
     (IF n = 0 THEN <<>> ELSE <<raster.data[0], raster.data[n - 1]>>)

DataUri(base64Data) == [prefix |-> "data:image/jpeg;base64,", base64 |-> base64Data]

\* -------------------------------------------------------------- timeline
\* non-decreasing sequences of timestamps of length n
RECURSIVE SortedOffsets(_)
SortedOffsets(n) ==
  IF n = 0 THEN {<<>>}
  ELSE {Append(s, t) : s \in SortedOffsets(n - 1), t \in TimeOffsets} \cap
       {s \in [1..n -> TimeOffsets] : \A k \in 1..(n - 1) : s[k] <= s[k + 1]}

FrameLists(n) ==
  {[k \in 1..n |-> [ts |-> Beginning + offs[k], interpolated |-> ip[k], image |-> im[k]]] :
     offs \in SortedOffsets(n), ip \in [1..n -> BOOLEAN], im \in [1..n -> Images]}

Speedlines ==
  {[frames |-> f, beginning |-> Beginning, complete |-> c] :
     f \in UNION {FrameLists(n) : n \in 0..MaxFrames}, c \in Completes}

NoSpeedline == [frames |-> <<>>, beginning |-> 0, complete |-> [given |-> FALSE, value |-> 0]]

VARIABLES
  pc,                \* position of the audit: see the actions
  gatherMode,        \* artifacts.GatherContext.gatherMode, once it is read
  minimumOption,     \* context.options.minimumTimelineDuration, once it is
                     \* read (0: not set)
  speedline,         \* the value Speedline.request resolved to
  timelineEnd,       \* const timelineEnd
  i,                 \* loop variable of the thumbnail loop
  thumbnails,        \* const thumbnails = []
  cachedThumbnails,  \* Map<SpeedlineFrame, string>, keyed by frame index
  selected,          \* frameForTimestamp of each finished iteration (0: null)
  parsedLog,         \* frames whose getParsedImage() was called, in order
  scaledLog,         \* frames whose raster was passed to the scaler
  encodedLog,        \* frames whose thumbnail was passed to jpeg.encode
  err,               \* the error thrown inside _audit, if any
  outcome,           \* what audit() settled with
  scaleInput,        \* the image handed to a direct call of the scaler
  scaleOutput        \* what scaleImageToThumbnail returned for it

vars == <<pc, gatherMode, minimumOption, speedline, timelineEnd, i, thumbnails,
          cachedThumbnails, selected, parsedLog, scaledLog, encodedLog, err, outcome,
          scaleInput, scaleOutput>>

NoError == [name |-> "none", code |-> "undefined", origin |-> "none"]
NoOutcome == [kind |-> "pending"]

LighthouseError(code, origin) == [name |-> "LighthouseError", code |-> code, origin |-> origin]
PlainError(name, origin) == [name |-> name, code |-> "undefined", origin |-> origin]

\* const minimumTimelineDuration = context.options.minimumTimelineDuration || 3000
minimumTimelineDuration(option) ==
  IF option # 0 THEN option ELSE DefaultMinimumTimelineDuration

\* speedline.frames.filter(frame => !frame.isProgressInterpolated()), as the
\* indices of the kept frames in speedline.frames (a frame's identity)
AnalyzedOf(sl) ==
  SelectSeq([k \in 1..Len(sl.frames) |-> k], LAMBDA k : ~sl.frames[k].interpolated)

analyzedFrames == AnalyzedOf(speedline)

\* speedline.complete || Math.max(...frames.map(f => f.getTimeStamp() - beginning))
MaxFrameTimeOf(sl) ==
  IF sl.complete.given /\ sl.complete.value # 0
    THEN sl.complete.value
    ELSE MathMax([k \in 1..Len(sl.frames) |-> sl.frames[k].ts - sl.beginning])

\* mutant: the minimum duration is not applied
TimelineEndOf_NoMinimum(sl, option) == MaxFrameTimeOf(sl)

\* Math.max(maxFrameTime, minimumTimelineDuration)
TimelineEndOf(sl, option) == Max(MaxFrameTimeOf(sl), minimumTimelineDuration(option))

\* mutant: the check for analyzed frames is missing
InvalidSpeedline_FiniteOnly(sl, end) == ~IsFinite(end)

\* line 90: !analyzedFrames.length || !Number.isFinite(timelineEnd)
InvalidSpeedline(sl, end) == Len(AnalyzedOf(sl)) = 0 \/ ~IsFinite(end)

\* 10 * targetTimestamp of iteration n
TargetTimestamp10(n) == NUMBER_OF_THUMBNAILS * speedline.beginning + timelineEnd * n

\* mutant: the scan stops at the first frame at or before the target
RECURSIVE ScanFrames_FirstMatch(_, _, _)
ScanFrames_FirstMatch(frames, target10, found) ==
  IF frames = <<>> THEN found
  ELSE IF NUMBER_OF_THUMBNAILS * speedline.frames[Head(frames)].ts <= target10
    THEN Head(frames)
    ELSE ScanFrames_FirstMatch(Tail(frames), target10, found)

\* the frame the forEach of lines 103-107 leaves in frameForTimestamp
RECURSIVE ScanFrames(_, _, _)
ScanFrames(frames, target10, found) ==
  IF frames = <<>> THEN found
  ELSE ScanFrames(Tail(frames), target10,
         IF NUMBER_OF_THUMBNAILS * speedline.frames[Head(frames)].ts <= target10
           THEN Head(frames) ELSE found)

\* mutant: the final bucket is sampled like the others
FrameForTimestamp_NoFinalCase(n) ==
  ScanFrames(analyzedFrames, TargetTimestamp10(n), 0)

\* lines 99-108: frameForTimestamp of iteration n (0: null)
FrameForTimestamp(n) ==
  IF n = NUMBER_OF_THUMBNAILS
    THEN analyzedFrames[Len(analyzedFrames)]
    ELSE ScanFrames(analyzedFrames, TargetTimestamp10(n), 0)

\* mutant: the cache is never hit
CacheGet_AlwaysMiss(frame) == <<>>

\* cachedThumbnails.get(frame): undefined (here the empty text) when absent
CacheGet(frame) ==
  IF frame \in DOMAIN cachedThumbnails THEN cachedThumbnails[frame] ELSE <<>>

Truthy(text) == text # <<>>

CacheSet(cache, frame, text) ==
  [k \in DOMAIN cache \cup {frame} |-> IF k = frame THEN text ELSE cache[k]]

Thumbnail(n, base64Data) ==
  [timing |-> Round10(TargetTimestamp10(n) - NUMBER_OF_THUMBNAILS * speedline.beginning),
   timestamp |-> TargetTimestamp10(n) * 100,
   data |-> DataUri(base64Data)]

\* ----------------------------------------------------------------- audit
NoImage == [width |-> 0, height |-> 0, seed |-> 0]
NoRaster == [width |-> 0, height |-> 0, data |-> <<>>]

Init ==
  /\ pc = "request"
  /\ gatherMode = "unread"
  /\ minimumOption = 0
  /\ speedline = NoSpeedline
  /\ timelineEnd = 0
  /\ i = 0
  /\ thumbnails = <<>>
  /\ cachedThumbnails = <<>>
  /\ selected = <<>>
  /\ parsedLog = <<>>
  /\ scaledLog = <<>>
  /\ encodedLog = <<>>
  /\ err = NoError
  /\ outcome = NoOutcome
  /\ scaleInput = NoImage
  /\ scaleOutput = NoRaster

\* line 78: await Speedline.request(trace, context) resolves
RequestResolve ==
  /\ pc = "request"
  /\ \E sl \in Speedlines : speedline' = sl
  /\ pc' = "compute"
  /\ UNCHANGED <<gatherMode, minimumOption, timelineEnd, i, thumbnails, cachedThumbnails,
                 selected, parsedLog, scaledLog, encodedLog, err, outcome,
                 scaleInput, scaleOutput>>

\* line 78: await Speedline.request(trace, context) rejects
RequestReject ==
  /\ pc = "request"
  /\ \E code \in UpstreamCodes : err' = LighthouseError(code, "speedline")
  /\ pc' = "catch"
  /\ UNCHANGED <<gatherMode, minimumOption, speedline, timelineEnd, i, thumbnails,
                 cachedThumbnails, selected, parsedLog, scaledLog, encodedLog, outcome,
                 scaleInput, scaleOutput>>

\* lines 81-92: the timeline end and the validity check
ComputeTimeline ==
  /\ pc = "compute"
  /\ minimumOption' \in MinimumOptions
  /\ timelineEnd' = TimelineEndOf(speedline, minimumOption')
  /\ IF InvalidSpeedline(speedline, timelineEnd')
       THEN /\ err' = LighthouseError("INVALID_SPEEDLINE", "sampler")
            /\ pc' = "catch"
            /\ i' = i
       ELSE /\ err' = err
            /\ pc' = "loop"
            /\ i' = 1
  /\ UNCHANGED <<gatherMode, speedline, thumbnails, cachedThumbnails,
                 selected, parsedLog, scaledLog, encodedLog, outcome,
                 scaleInput, scaleOutput>>

\* what may go wrong while a frame is decoded and encoded
Faults == {"none", "decode", "encode"}

\* lines 94-125: one iteration of the thumbnail loop
LoopBody ==
  /\ pc = "loop"
  /\ i <= NUMBER_OF_THUMBNAILS
  /\ LET frameForTimestamp == FrameForTimestamp(i)
         cachedThumbnail == CacheGet(frameForTimestamp)
     IN /\ selected' = Append(selected, frameForTimestamp)
        /\ IF Truthy(cachedThumbnail)
             THEN /\ thumbnails' = Append(thumbnails, Thumbnail(i, cachedThumbnail))
                  /\ i' = i + 1
                  /\ UNCHANGED <<pc, cachedThumbnails, parsedLog, scaledLog, encodedLog, err>>
             ELSE IF frameForTimestamp = 0
               THEN \* null.getParsedImage()
                    /\ err' = PlainError("TypeError", "selection")
                    /\ pc' = "catch"
                    /\ UNCHANGED <<i, thumbnails, cachedThumbnails, parsedLog, scaledLog,
                                   encodedLog>>
               ELSE LET imageData == getParsedImage(speedline.frames[frameForTimestamp].image)
                        thumbnailImageData == scaleImageToThumbnail(imageData)
                        base64Data == JpegEncodeBase64(thumbnailImageData, JpegQuality)
                    IN \E fault \in Faults :
                       /\ parsedLog' = Append(parsedLog, frameForTimestamp)
                       /\ scaledLog' = IF fault = "decode" THEN scaledLog
                                       ELSE Append(scaledLog, frameForTimestamp)
                       /\ encodedLog' = IF fault = "decode" THEN encodedLog
                                        ELSE Append(encodedLog, frameForTimestamp)
                       /\ IF fault = "none"
                            THEN /\ cachedThumbnails' =
                                      CacheSet(cachedThumbnails, frameForTimestamp, base64Data)
                                 /\ thumbnails' = Append(thumbnails, Thumbnail(i, base64Data))
                                 /\ i' = i + 1
                                 /\ UNCHANGED <<pc, err>>
                            ELSE /\ err' = PlainError("Error", fault)
                                 /\ pc' = "catch"
                                 /\ UNCHANGED <<i, thumbnails, cachedThumbnails>>
  /\ UNCHANGED <<gatherMode, minimumOption, speedline, timelineEnd, outcome,
                 scaleInput, scaleOutput>>

\* lines 127-134 and 144: _audit returns the filmstrip, audit returns it
Return ==
  /\ pc = "loop"
  /\ i > NUMBER_OF_THUMBNAILS
  /\ outcome' = [kind |-> "returned", notApplicable |-> FALSE, score |-> 1,
                 details |-> [type |-> "filmstrip", scale |-> timelineEnd,
                              items |-> thumbnails],
                 error |-> NoError]
  /\ pc' = "done"
  /\ UNCHANGED <<gatherMode, minimumOption, speedline, timelineEnd, i, thumbnails,
                 cachedThumbnails, selected, parsedLog, scaledLog, encodedLog, err,
                 scaleInput, scaleOutput>>

NoDetails == [type |-> "none", scale |-> 0, items |-> <<>>]

\* mutant: the gather mode is not consulted
Classify_IgnoreMode(e, mode) ==
  IF e.code \in NoFramesCodes
    THEN [kind |-> "returned", notApplicable |-> TRUE, score |-> 1,
          details |-> NoDetails, error |-> NoError]
    ELSE [kind |-> "thrown", notApplicable |-> FALSE, score |-> 0,
          details |-> NoDetails, error |-> e]

\* what the catch block of audit settles with for error e under mode
Classify(e, mode) ==
  IF e.code \in NoFramesCodes /\ mode = "timespan"
    THEN [kind |-> "returned", notApplicable |-> TRUE, score |-> 1,
          details |-> NoDetails, error |-> NoError]
    ELSE [kind |-> "thrown", notApplicable |-> FALSE, score |-> 0,
          details |-> NoDetails, error |-> e]

\* lines 145-159: the catch block of audit
Catch ==
  /\ pc = "catch"
  /\ gatherMode' \in GatherModes
  /\ outcome' = Classify(err, gatherMode')
  /\ pc' = "done"
  /\ UNCHANGED <<minimumOption, speedline, timelineEnd, i, thumbnails,
                 cachedThumbnails, selected, parsedLog, scaledLog, encodedLog, err,
                 scaleInput, scaleOutput>>

Next == RequestResolve \/ RequestReject \/ ComputeTimeline \/ LoopBody \/ Return \/ Catch

Spec == Init /\ [][Next]_vars

\* ---------------------------------------------------------------- scaler
\* images handed to scaleImageToThumbnail directly
ScalerInputs ==
  {[width |-> w, height |-> h, seed |-> s] :
     w \in {40, 60, 120, 240, 360}, h \in 1..MaxImageHeight, s \in {1, 2}} \cup
  {[width |-> 1200, height |-> 800, seed |-> 3]}

InitScale ==
  /\ pc = "scale"
  /\ scaleInput \in ScalerInputs
  /\ scaleOutput = NoRaster
  /\ gatherMode = "unread"
  /\ minimumOption = 0
  /\ speedline = NoSpeedline
  /\ timelineEnd = 0
  /\ i = 0
  /\ thumbnails = <<>>
  /\ cachedThumbnails = <<>>
  /\ selected = <<>>
  /\ parsedLog = <<>>
  /\ scaledLog = <<>>
  /\ encodedLog = <<>>
  /\ err = NoError
  /\ outcome = NoOutcome

\* lines 39-66: one call of scaleImageToThumbnail
ScaleImage ==
  /\ pc = "scale"
  /\ scaleOutput' = scaleImageToThumbnail(getParsedImage(scaleInput))
  /\ pc' = "scaled"
  /\ UNCHANGED <<scaleInput, gatherMode, minimumOption, speedline, timelineEnd, i,
                 thumbnails, cachedThumbnails, selected, parsedLog, scaledLog,
                 encodedLog, err, outcome>>

NextScale == ScaleImage

SpecScale == InitScale /\ [][NextScale]_vars

\* ================================================================ claims
\* the timeline was fetched and lines 81-92 have run
Computed == pc \in {"loop", "catch", "done"} /\ err.origin # "speedline"

\* audit returned the filmstrip
Succeeded == pc = "done" /\ outcome.kind = "returned" /\ ~outcome.notApplicable

\* _audit threw and the catch block has settled
Failed == pc = "done" /\ err # NoError

Analyzed(k) == ~speedline.frames[k].interpolated
AnalyzedIndices == {k \in 1..Len(speedline.frames) : Analyzed(k)}
Range(seq) == {seq[k] : k \in 1..Len(seq)}
NoDuplicates(seq) == \A a, b \in 1..Len(seq) : a # b => seq[a] # seq[b]
\* configured minimum, 3000 when none is configured
ConfiguredMinimum == IF minimumOption = 0 THEN 3000 ELSE minimumOption
\* t is x/10 rounded to the nearest integer, a half going up
IsRounded(t, x) == 10 * t - 5 <= x /\ x < 10 * t + 5
TimingsOk(items) ==
  \A k \in 1..Len(items) : IsRounded(items[k].timing, timelineEnd * k)
StrictlyAscending(items) ==
  \A k \in 1..(Len(items) - 1) : items[k].timing < items[k + 1].timing
NonDecreasing(items) ==
  \A k \in 1..(Len(items) - 1) : items[k].timing <= items[k + 1].timing

\* C1 (as stated): a successful build returns exactly 10 thumbnails whose
\* timings round(targetTimestamp - beginning) are strictly ascending, for
\* any configured minimumTimelineDuration.
C1_Original ==
  Succeeded =>
    /\ Len(outcome.details.items) = 10
    /\ TimingsOk(outcome.details.items)
    /\ StrictlyAscending(outcome.details.items)

\* C1 (amended): a successful build returns exactly 10 thumbnails whose
\* timings round(targetTimestamp - beginning) never decrease in bucket
\* order, and are strictly ascending whenever timelineEnd >= 10.
C1_Amended ==
  Succeeded =>
    /\ Len(outcome.details.items) = 10
    /\ TimingsOk(outcome.details.items)
    /\ NonDecreasing(outcome.details.items)
    /\ (timelineEnd >= 10 => StrictlyAscending(outcome.details.items))

C1_Witness ==
  /\ Succeeded
  /\ minimumOption = 0
  /\ outcome.details.items[1].timing = 300
  /\ outcome.details.items[10].timing = 3000
  /\ StrictlyAscending(outcome.details.items)

\* C2: in every successful build the thumbnail of bucket 10 is made from the
\* chronologically last analyzed frame, whatever its timestamp and whatever
\* the earlier buckets selected.
C2_LastFrame ==
  Succeeded =>
    LET last == selected[10]
    IN /\ last \in AnalyzedIndices
       /\ \A k \in AnalyzedIndices : k <= last
       /\ \A k \in AnalyzedIndices : speedline.frames[k].ts <= speedline.frames[last].ts
       /\ last \in DOMAIN cachedThumbnails
       /\ outcome.details.items[10].data.base64 = cachedThumbnails[last]

C2_Witness ==
  /\ Succeeded
  /\ selected[10] # selected[9]
  /\ speedline.frames[selected[10]].ts > speedline.beginning + timelineEnd

\* C3: when the build fails, audit resolves to {notApplicable: true, score: 1}
\* exactly when the error's code is one of the four no-frames codes and the
\* mode is timespan; otherwise the original error is thrown unchanged and
\* nothing is returned.
C3_Classifier ==
  Failed =>
    IF /\ err.code \in {"NO_SCREENSHOTS", "SPEEDINDEX_OF_ZERO",
                        "NO_SPEEDLINE_FRAMES", "INVALID_SPEEDLINE"}
       /\ gatherMode = "timespan"
      THEN /\ outcome.kind = "returned"
           /\ outcome.notApplicable
           /\ outcome.score = 1
           /\ outcome.details = NoDetails
           /\ outcome.error = NoError
      ELSE /\ outcome.kind = "thrown"
           /\ outcome.error = err
           /\ outcome.details = NoDetails
           /\ ~outcome.notApplicable

C3_Witness ==
  /\ Failed
  /\ err.code = "INVALID_SPEEDLINE"
  /\ err.origin = "sampler"
  /\ gatherMode = "timespan"
  /\ outcome.notApplicable

\* C4: within one build no frame is decoded, scaled or encoded twice, and in
\* a successful build the number of encoder calls equals the number of
\* distinct frames the 10 buckets selected.
C4_EncodeOnce ==
  /\ NoDuplicates(parsedLog)
  /\ NoDuplicates(scaledLog)
  /\ NoDuplicates(encodedLog)
  /\ Succeeded =>
       /\ Range(encodedLog) = Range(selected)
       /\ Len(encodedLog) = Cardinality(Range(selected))

C4_Witness ==
  /\ Succeeded
  /\ Cardinality(Range(selected)) = 2
  /\ Len(encodedLog) = 2
  /\ selected[1] = selected[2]

\* C5: a timeline without analyzed frames (an empty one included) makes the
\* build raise INVALID_SPEEDLINE, with no raster requested, nothing scaled
\* and nothing encoded before.
C5_NoFrames ==
  (pc \notin {"request", "compute"} /\ err.origin # "speedline"
     /\ AnalyzedIndices = {}) =>
    /\ pc \in {"catch", "done"}
    /\ err = LighthouseError("INVALID_SPEEDLINE", "sampler")
    /\ selected = <<>>
    /\ parsedLog = <<>>
    /\ scaledLog = <<>>
    /\ encodedLog = <<>>

C5_Witness ==
  /\ pc = "done"
  /\ Len(speedline.frames) = 2
  /\ AnalyzedIndices = {}
  /\ err.code = "INVALID_SPEEDLINE"
  /\ parsedLog = <<>>

\* C6: scaleImageToThumbnail returns width 120 and height
\* floor(inputHeight / (inputWidth / 120)); output pixel (col, row) carries
\* the 4 channels of input pixel (floor(col * f), floor(row * f)), which lies
\* inside the input.
C6_Scaler ==
  pc = "scaled" =>
    LET w == scaleInput.width
        h == scaleInput.height
        outH == scaleOutput.height
    IN /\ scaleOutput.width = 120
       /\ outH * w <= h * 120 /\ h * 120 < (outH + 1) * w
       /\ DOMAIN scaleOutput.data = 0..(120 * outH * 4 - 1)
       /\ \A col \in 0..119 : \A row \in 0..(outH - 1) :
            LET x == (col * w) \div 120
                y == (row * w) \div 120
            IN /\ x < w
               /\ y < h
               /\ \A c \in 0..3 :
                    scaleOutput.data[(row * 120 + col) * 4 + c] =
                      PixelByte(scaleInput.seed, (y * w + x) * 4 + c)

C6_Witness ==
  /\ pc = "scaled"
  /\ scaleInput.width = 1200
  /\ scaleInput.height = 800
  /\ scaleOutput.width = 120
  /\ scaleOutput.height = 80

\* C7 (as stated): when completion is given, timelineEnd equals completion
\* whatever the configured minimum.  Stated for a completion other than 0;
\* completion = 0 is the subject of C8.
C7_Original ==
  (Computed /\ speedline.complete.given /\ speedline.complete.value # 0) =>
    timelineEnd = speedline.complete.value

\* C7 (amended): when completion is given, timelineEnd equals completion
\* whenever completion is at least the configured minimum (3000 when none
\* is configured), and is at least that minimum otherwise.
C7_Amended ==
  (Computed /\ speedline.complete.given) =>
    IF speedline.complete.value >= ConfiguredMinimum
      THEN timelineEnd = speedline.complete.value
      ELSE timelineEnd >= ConfiguredMinimum

C7_Witness ==
  /\ Succeeded
  /\ speedline.complete.given
  /\ speedline.complete.value = 5000
  /\ minimumOption = 0
  /\ outcome.details.scale = 5000

\* greatest frame.timestamp - beginning over all frames
GreatestFrameTime ==
  IF speedline.frames = <<>> THEN NegInfinity
  ELSE CHOOSE m \in {speedline.frames[k].ts - speedline.beginning :
                       k \in 1..Len(speedline.frames)} :
         \A k \in 1..Len(speedline.frames) :
           speedline.frames[k].ts - speedline.beginning <= m

\* C8: timelineEnd = max(maxFrameTime, minimumDuration), where maxFrameTime
\* is completion whenever completion is not null (completion = 0 included)
\* and otherwise the greatest frame.timestamp - beginning.
C8_TimelineEnd ==
  Computed =>
    LET claimedMaxFrameTime ==
          IF speedline.complete.given THEN speedline.complete.value
          ELSE GreatestFrameTime
    IN timelineEnd = Max(claimedMaxFrameTime, ConfiguredMinimum)

\* C9: once the validity check has passed, every bucket has a source frame
\* selected (never null) when its raster is requested.
C9_FrameSelected ==
  \A k \in 1..Len(selected) : selected[k] # 0

\* C10: for every bucket n < 10 the selected frame is the last analyzed
\* frame whose timestamp <= targetTimestamp: never an interpolated frame,
\* never a frame past the target.
C10_HoldLast ==
  \A n \in 1..Len(selected) :
    n < 10 =>
      LET target10 == 10 * speedline.beginning + timelineEnd * n
          eligible == {k \in AnalyzedIndices : 10 * speedline.frames[k].ts <= target10}
      IN IF eligible = {}
           THEN selected[n] = 0
           ELSE /\ selected[n] \in eligible
                /\ \A k \in eligible : k <= selected[n]

C10_Witness ==
  \E n \in 1..Len(selected) :
    /\ n < 10
    /\ selected[n] # 0
    /\ \E k \in AnalyzedIndices :
         LET target10 == 10 * speedline.beginning + timelineEnd * n
         IN /\ 10 * speedline.frames[k].ts > target10
            /\ 10 * speedline.frames[k].ts - target10 <
               target10 - 10 * speedline.frames[selected[n]].ts

====
